---- MODULE Spec2Model ----
(***************************************************************************)
(* The exam session controller of the practice-exam front end: the App     *)
(* component (its React state, its three effects and its event handlers),  *)
(* the login modal, the review modal and the exam-in-progress modal.       *)
(*                                                                         *)
(* One React render is one state.  An action is one event (a click, a      *)
(* timer tick, the completion of an awaited request): the handler's        *)
(* batched state updates followed by the effects that the new render       *)
(* triggers (RunEffects).  Awaited requests are split at the await.        *)
(***************************************************************************)
EXTENDS Integers, Sequences, FiniteSets, TLC

\* ------------------------------------------------------------------ bounds
\* Questions returned by one fetch (the code asks for 50).
MaxQuestions == 2
\* Seconds per question (the code's 90, scaled down).
TimePerQuestion == 2
\* Index whose entry is gated by the login prompt (the code's 25, scaled down).
LoginPromptIndex == 1
\* Target size of an exam's question pool (the documented 100, scaled down).
PoolTarget == 3
\* Smallest enrichment batch (the documented MIN_ENRICHMENT_BATCH of 10, scaled down).
MinEnrichmentBatch == 1

\* ------------------------------------------------------- program constants
PassPercent == 70

PAGES == [HOME |-> "home", EXAM |-> "exam", CONTACT |-> "contact", REVIEW |-> "review"]

EXAM_TYPES == {"solutions_architect", "cloud_practitioner", "developer"}

\* The exam types the user clicks: the third is handled as the second is.
ClickedTypes == {"solutions_architect", "cloud_practitioner"}

Null == "null"

\* Option letters of a question.
Letters == {"A", "B"}

\* Question ids of the pool a fetch samples from.
QuestionIds == 1..MaxQuestions

\* The correct letter of question q (Question.correctAnswerLetter).
correctAnswerLetter(q) == "A"

\* The lists a fetch can return: a random sample of the pool in random order.
\* Two orders of the same sample stand for them.
QuestionLists ==
  { [i \in 1..MaxQuestions |-> i], [i \in 1..MaxQuestions |-> MaxQuestions + 1 - i] }

\* Cap on currentQuestionIndex, which handleLoginSuccess increments without a
\* limit: an index of Len(questions) is already past the list.
MaxIndex == MaxQuestions

\* An entry of userAnswers; an id without an entry is modelled by NoRecord.
UserAnswerRecord(letter, correct, timedOut) ==
  [selectedLetter |-> letter, isCorrect |-> correct, attempted |-> TRUE, timedOut |-> timedOut]

NoRecord ==
  [selectedLetter |-> Null, isCorrect |-> FALSE, attempted |-> FALSE, timedOut |-> FALSE]

NoAnswers == [q \in QuestionIds |-> NoRecord]

\* Questions asked for by one fetch: the largest total of an attempt.
ScoreMaxTotal == 50

\* The pairs n, d with d <= ScoreMaxTotal whose exact percentage ends in .5 while
\* the double (n / d) * 100 lies below it: (23 / 40) * 100 is 57.49999999999999.
DoubleBelowHalf == {<<23, 40>>}

\* Math.round((n / d) * 100) for 0 <= n, 0 < d <= ScoreMaxTotal: the double is
\* rounded to the nearest integer, a half upwards.
MathRoundPercent(n, d) ==
  LET exact == (200 * n + d) \div (2 * d)
  IN  IF <<n, d>> \in DoubleBelowHalf THEN exact - 1 ELSE exact

VARIABLES
  questions, currentQuestionIndex, userAnswers, selectedAnswerLetter, showFeedback,
  currentPage, currentExamType, isReviewMode, isLoadingQuestions, loadingError,
  isPreGenerating, timeRemaining, timerActive, user, showLoginModal,
  hasShownLoginPrompt, examInProgress, showExamInProgressModal, pendingExamType,
  showCertificate, showReviewModal, pendingCertificate,
  loadRequests,     \* exam types of the loadQuestions calls awaiting their fetch
  timeUpClosure,    \* index and questions captured by the interval's handleTimeUp
  signIn,           \* the login modal's sign-in request and the isReviewMode its onSuccess captured
  reviewSubmit,     \* the review submission in flight and the pendingCertificate it captured
  promptedInSession, \* history: handleNextQuestion raised the login prompt since the questions were installed or restarted
  examPool,         \* the question pool of one exam in the content store, with the last request served and its reply
  loadCall          \* the timed course of one loadQuestions call: its race, the requests and timers of getOrGenerateExamQuestions

vars ==
  <<questions, currentQuestionIndex, userAnswers, selectedAnswerLetter, showFeedback,
    currentPage, currentExamType, isReviewMode, isLoadingQuestions, loadingError,
    isPreGenerating, timeRemaining, timerActive, user, showLoginModal,
    hasShownLoginPrompt, examInProgress, showExamInProgressModal, pendingExamType,
    showCertificate, showReviewModal, pendingCertificate,
    loadRequests, timeUpClosure, signIn, reviewSubmit, promptedInSession,
    examPool, loadCall>>

\* The current render as a record, and the installation of a record as the next render.
Cur ==
  [questions |-> questions, currentQuestionIndex |-> currentQuestionIndex,
   userAnswers |-> userAnswers, selectedAnswerLetter |-> selectedAnswerLetter,
   showFeedback |-> showFeedback, currentPage |-> currentPage,
   currentExamType |-> currentExamType, isReviewMode |-> isReviewMode,
   isLoadingQuestions |-> isLoadingQuestions, loadingError |-> loadingError,
   isPreGenerating |-> isPreGenerating, timeRemaining |-> timeRemaining,
   timerActive |-> timerActive, user |-> user, showLoginModal |-> showLoginModal,
   hasShownLoginPrompt |-> hasShownLoginPrompt, examInProgress |-> examInProgress,
   showExamInProgressModal |-> showExamInProgressModal,
   pendingExamType |-> pendingExamType, showCertificate |-> showCertificate,
   showReviewModal |-> showReviewModal, pendingCertificate |-> pendingCertificate,
   loadRequests |-> loadRequests, timeUpClosure |-> timeUpClosure, signIn |-> signIn,
   reviewSubmit |-> reviewSubmit, promptedInSession |-> promptedInSession,
   examPool |-> examPool, loadCall |-> loadCall]

Install(s) ==
  /\ questions' = s.questions
  /\ currentQuestionIndex' = s.currentQuestionIndex
  /\ userAnswers' = s.userAnswers
  /\ selectedAnswerLetter' = s.selectedAnswerLetter
  /\ showFeedback' = s.showFeedback
  /\ currentPage' = s.currentPage
  /\ currentExamType' = s.currentExamType
  /\ isReviewMode' = s.isReviewMode
  /\ isLoadingQuestions' = s.isLoadingQuestions
  /\ loadingError' = s.loadingError
  /\ isPreGenerating' = s.isPreGenerating
  /\ timeRemaining' = s.timeRemaining
  /\ timerActive' = s.timerActive
  /\ user' = s.user
  /\ showLoginModal' = s.showLoginModal
  /\ hasShownLoginPrompt' = s.hasShownLoginPrompt
  /\ examInProgress' = s.examInProgress
  /\ showExamInProgressModal' = s.showExamInProgressModal
  /\ pendingExamType' = s.pendingExamType
  /\ showCertificate' = s.showCertificate
  /\ showReviewModal' = s.showReviewModal
  /\ pendingCertificate' = s.pendingCertificate
  /\ loadRequests' = s.loadRequests
  /\ timeUpClosure' = s.timeUpClosure
  /\ signIn' = s.signIn
  /\ reviewSubmit' = s.reviewSubmit
  /\ promptedInSession' = s.promptedInSession
  /\ examPool' = s.examPool
  /\ loadCall' = s.loadCall

\* The bounds of a load in seconds: the race of loadQuestions, the abort of the
\* generation request, and the wait after a generation before the sampling.
RaceTimeout == 60
GenerationTimeout == 60
SaveDelay == 2

\* A timer that is not armed.
Unarmed == -1

\* The question texts the generator can produce: enough for a pool to pass its target.
Texts == 1..(PoolTarget + 1)

\* No request has been served.
NoReply == [endpoint |-> "none"]

\* An exam without questions: rows[t] is the number of stored questions whose
\* question_text is t.
EmptyPool == [rows |-> [t \in Texts |-> 0], reply |-> NoReply]

\* No timed loadQuestions call is followed.
NoCall ==
  [phase |-> "idle", racePending |-> FALSE, raceTimer |-> Unarmed,
   abortTimer |-> Unarmed, saveTimer |-> Unarmed, generation |-> "none",
   sampled |-> FALSE, sample |-> <<>>, examType |-> Null, questions_count |-> 0]

\* No interval exists: nothing is captured.
NoClosure == [currentQuestionIndex |-> 0, questions |-> <<>>]

\* The App's state after construction (the useState initial values); the
\* authentication provider may restore a signed-in user.
InitState(u) ==
  [questions |-> <<>>, currentQuestionIndex |-> 0, userAnswers |-> NoAnswers,
   selectedAnswerLetter |-> Null, showFeedback |-> FALSE, currentPage |-> PAGES.HOME,
   currentExamType |-> "solutions_architect", isReviewMode |-> FALSE,
   isLoadingQuestions |-> FALSE, loadingError |-> FALSE, isPreGenerating |-> FALSE,
   timeRemaining |-> TimePerQuestion, timerActive |-> FALSE, user |-> u,
   showLoginModal |-> FALSE, hasShownLoginPrompt |-> FALSE, examInProgress |-> FALSE,
   showExamInProgressModal |-> FALSE, pendingExamType |-> Null,
   showCertificate |-> FALSE, showReviewModal |-> FALSE, pendingCertificate |-> FALSE,
   loadRequests |-> {},
   timeUpClosure |-> NoClosure,
   signIn |-> [phase |-> "idle", isReviewMode |-> FALSE],
   reviewSubmit |-> [phase |-> "idle", pendingCertificate |-> FALSE],
   promptedInSession |-> FALSE,
   examPool |-> EmptyPool, loadCall |-> NoCall]

Init ==
  \E u \in BOOLEAN :
    LET s == InitState(u) IN
    /\ questions = s.questions
    /\ currentQuestionIndex = s.currentQuestionIndex
    /\ userAnswers = s.userAnswers
    /\ selectedAnswerLetter = s.selectedAnswerLetter
    /\ showFeedback = s.showFeedback
    /\ currentPage = s.currentPage
    /\ currentExamType = s.currentExamType
    /\ isReviewMode = s.isReviewMode
    /\ isLoadingQuestions = s.isLoadingQuestions
    /\ loadingError = s.loadingError
    /\ isPreGenerating = s.isPreGenerating
    /\ timeRemaining = s.timeRemaining
    /\ timerActive = s.timerActive
    /\ user = s.user
    /\ showLoginModal = s.showLoginModal
    /\ hasShownLoginPrompt = s.hasShownLoginPrompt
    /\ examInProgress = s.examInProgress
    /\ showExamInProgressModal = s.showExamInProgressModal
    /\ pendingExamType = s.pendingExamType
    /\ showCertificate = s.showCertificate
    /\ showReviewModal = s.showReviewModal
    /\ pendingCertificate = s.pendingCertificate
    /\ loadRequests = s.loadRequests
    /\ timeUpClosure = s.timeUpClosure
    /\ signIn = s.signIn
    /\ reviewSubmit = s.reviewSubmit
    /\ promptedInSession = s.promptedInSession
    /\ examPool = s.examPool
    /\ loadCall = s.loadCall

\* ------------------------------------------------------------------ effects
\* Faulty variant: the load effect depends on the page alone.
LoadDepsPageOnly(s) == <<s.currentPage>>

\* The dependency lists of the three effects of App.
LoadDeps(s) == <<s.currentExamType, s.currentPage>>

TimerDeps(s) == <<s.timerActive, s.timeRemaining, s.showFeedback, s.isReviewMode>>

StartTimerDeps(s) == <<s.currentQuestionIndex, s.questions, s.isReviewMode>>

\* Faulty variant: the timer effect without the check for review mode.
TimerRunningInReview(s) == s.timerActive /\ s.timeRemaining > 0 /\ ~s.showFeedback

\* The condition under which the timer effect keeps an interval.
TimerRunning(s) ==
  s.timerActive /\ s.timeRemaining > 0 /\ ~s.showFeedback /\ ~s.isReviewMode

\* loadQuestions up to its await: the synchronous part of the load effect.
loadQuestionsStart(s) ==
  [s EXCEPT !.isLoadingQuestions = TRUE, !.loadingError = FALSE, !.questions = <<>>,
            !.loadRequests = @ \cup {s.currentExamType}]

\* Faulty variant: the effects without the start-timer effect.
RunEffectsNoStart(prev, cur) ==
  LET loadFires == LoadDeps(cur) # LoadDeps(prev) /\ cur.currentPage = PAGES.EXAM
      timerFires == TimerDeps(cur) # TimerDeps(prev)
      a == IF timerFires
           THEN [cur EXCEPT !.timeUpClosure =
                   IF TimerRunning(cur)
                   THEN [currentQuestionIndex |-> cur.currentQuestionIndex,
                         questions |-> cur.questions]
                   ELSE NoClosure]
           ELSE cur
  IN  IF loadFires THEN loadQuestionsStart(a) ELSE a

\* The effects that run after render cur, whose previous render was prev.  The
\* load effect runs loadQuestions when the page is the exam page; the timer
\* effect replaces the interval, whose handleTimeUp is the one of render cur;
\* the start-timer effect restarts the countdown when questions are loaded.
RunEffects(prev, cur) ==
  LET loadFires == LoadDeps(cur) # LoadDeps(prev) /\ cur.currentPage = PAGES.EXAM
      timerFires == TimerDeps(cur) # TimerDeps(prev)
      startFires == /\ StartTimerDeps(cur) # StartTimerDeps(prev)
                    /\ Len(cur.questions) > 0
                    /\ ~cur.isReviewMode
      a == IF timerFires
           THEN [cur EXCEPT !.timeUpClosure =
                   IF TimerRunning(cur)
                   THEN [currentQuestionIndex |-> cur.currentQuestionIndex,
                         questions |-> cur.questions]
                   ELSE NoClosure]
           ELSE cur
      b == IF loadFires THEN loadQuestionsStart(a) ELSE a
  IN  IF startFires
      THEN [b EXCEPT !.timeRemaining = TimePerQuestion, !.timerActive = TRUE]
      ELSE b

\* The render that follows a handler whose batched updates turn prev into next:
\* effects run after the render, and again after the render their updates cause.
Commit(prev, next) ==
  LET afterFirst == RunEffects(prev, next)
  IN  RunEffects(next, afterFirst)

\* ------------------------------------------------------------- what is shown
\* App returns the home page when currentPage is HOME.
HomeScreen(s) == s.currentPage = PAGES.HOME

\* App returns the loading (or error) screen instead of the navigation and the page.
LoadingScreen(s) ==
  /\ ~HomeScreen(s)
  /\ \/ s.isPreGenerating
     \/ s.isLoadingQuestions
     \/ (s.currentPage = PAGES.EXAM /\ Len(s.questions) = 0)

\* renderExamPage reads questions[currentQuestionIndex] outside review mode: with
\* the index past the list the render throws and React unmounts the App.
Crashed(s) ==
  /\ ~HomeScreen(s)
  /\ ~LoadingScreen(s)
  /\ s.currentPage = PAGES.EXAM
  /\ ~s.isReviewMode
  /\ s.currentQuestionIndex >= Len(s.questions)

MainScreen(s) == ~HomeScreen(s) /\ ~LoadingScreen(s) /\ ~Crashed(s)

\* The modals are full-screen overlays; the one rendered last lies on top and
\* takes the clicks.
TopModal(s) ==
  IF HomeScreen(s)
  THEN (IF s.showExamInProgressModal THEN "examInProgress" ELSE "none")
  ELSE IF ~MainScreen(s) THEN "unmounted"
  ELSE IF s.showReviewModal THEN "review"
  ELSE IF s.showCertificate THEN "certificate"
  ELSE IF s.showExamInProgressModal THEN "examInProgress"
  ELSE IF s.showLoginModal THEN "login"
  ELSE "none"

\* The navigation bar and the page content can be clicked.
NavEnabled(s) == MainScreen(s) /\ TopModal(s) = "none"

\* The question card of renderExamPage is shown and can be clicked.
QuestionShown(s) == NavEnabled(s) /\ s.currentPage = PAGES.EXAM /\ ~s.isReviewMode

\* ---------------------------------------------------------- faulty variants
\* Handlers with one plausible fault each: the properties below fail for them.

\* loadQuestions that forgets setExamInProgress(true).
loadQuestionsSuccessNoLock(s, t, qs) ==
  [s EXCEPT !.questions = qs, !.currentQuestionIndex = 0, !.userAnswers = NoAnswers,
            !.selectedAnswerLetter = Null, !.showFeedback = FALSE,
            !.isReviewMode = FALSE, !.timeRemaining = TimePerQuestion,
            !.timerActive = FALSE, !.showCertificate = FALSE,
            !.isLoadingQuestions = FALSE, !.loadRequests = @ \ {t},
            !.promptedInSession = FALSE]

\* handleTimeUp that records the timeout but forgets setShowFeedback(true).
handleTimeUpNoFeedback(s) ==
  LET c == s.timeUpClosure IN
  IF c.currentQuestionIndex < Len(c.questions)
  THEN LET q == c.questions[c.currentQuestionIndex + 1] IN
       [s EXCEPT !.userAnswers = [s.userAnswers EXCEPT ![q] = UserAnswerRecord(Null, FALSE, TRUE)],
                 !.selectedAnswerLetter = Null, !.timerActive = FALSE]
  ELSE s

\* handleExamSelection without the exam-in-progress check.
handleExamSelectionNoLock(s, examType) ==
  [s EXCEPT !.isPreGenerating = TRUE, !.currentExamType = examType,
            !.currentPage = PAGES.EXAM]

\* handleLoginSuccess that re-opens the current question instead of advancing.
handleLoginSuccessStays(s, reviewMode) ==
  [s EXCEPT !.showLoginModal = FALSE,
            !.selectedAnswerLetter = Null, !.showFeedback = FALSE,
            !.timeRemaining = TimePerQuestion,
            !.timerActive = IF ~reviewMode THEN TRUE ELSE @,
            !.signIn = [phase |-> "idle", isReviewMode |-> FALSE]]

\* handleSubmitAnswer that records the answer without comparing it.
handleSubmitAnswerUncompared(s) ==
  IF s.selectedAnswerLetter = Null \/ s.showFeedback THEN s
  ELSE LET q == s.questions[s.currentQuestionIndex + 1]
       IN [s EXCEPT !.userAnswers = [s.userAnswers EXCEPT
                        ![q] = UserAnswerRecord(s.selectedAnswerLetter, TRUE, FALSE)],
                    !.showFeedback = TRUE, !.timerActive = FALSE]

\* handleReviewClose that closes the prompt and forgets the pending certificate.
handleReviewCloseOnly(s) == [s EXCEPT !.showReviewModal = FALSE]

\* ----------------------------------------------------------------- handlers
\* Each handler is the render its batched updates produce from render s.

\* loadQuestions after a successful fetch of the list qs, requested for exam type t.
loadQuestionsSuccess(s, t, qs) ==
  [s EXCEPT !.questions = qs, !.currentQuestionIndex = 0, !.userAnswers = NoAnswers,
            !.selectedAnswerLetter = Null, !.showFeedback = FALSE,
            !.isReviewMode = FALSE, !.timeRemaining = TimePerQuestion,
            !.timerActive = FALSE, !.examInProgress = TRUE, !.showCertificate = FALSE,
            !.isLoadingQuestions = FALSE, !.loadRequests = @ \ {t},
            !.promptedInSession = FALSE]

\* loadQuestions after a failed fetch or the 60 s race timeout.
loadQuestionsFailure(s, t) ==
  [s EXCEPT !.loadingError = TRUE, !.questions = <<>>, !.isLoadingQuestions = FALSE,
            !.loadRequests = @ \ {t}]

\* handleTimeUp as the interval captured it: it reads the index and the
\* questions of the render in which the timer effect last ran.
handleTimeUp(s) ==
  LET c == s.timeUpClosure IN
  IF c.currentQuestionIndex < Len(c.questions)
  THEN LET q == c.questions[c.currentQuestionIndex + 1] IN
       [s EXCEPT !.userAnswers = [s.userAnswers EXCEPT ![q] = UserAnswerRecord(Null, FALSE, TRUE)],
                 !.selectedAnswerLetter = Null, !.showFeedback = TRUE,
                 !.timerActive = FALSE]
  ELSE s

\* Faulty variant: the updater compares with 0 instead of 1.
timerTickToZero(s) ==
  IF s.timeRemaining <= 0
  THEN [handleTimeUp(s) EXCEPT !.timeRemaining = TimePerQuestion]
  ELSE [s EXCEPT !.timeRemaining = @ - 1]

\* The interval callback: setTimeRemaining with the updater of the timer effect.
timerTick(s) ==
  IF s.timeRemaining <= 1
  THEN [handleTimeUp(s) EXCEPT !.timeRemaining = TimePerQuestion]
  ELSE [s EXCEPT !.timeRemaining = @ - 1]

handleExamTypeChange(s, examType) ==
  IF s.examInProgress /\ examType # s.currentExamType /\ ~s.isReviewMode
  THEN [s EXCEPT !.pendingExamType = examType, !.showExamInProgressModal = TRUE]
  ELSE [s EXCEPT !.currentExamType = examType, !.currentPage = PAGES.EXAM,
                 !.isPreGenerating = TRUE]

handleExamSelection(s, examType) ==
  IF s.examInProgress /\ examType # s.currentExamType /\ ~s.isReviewMode
  THEN [s EXCEPT !.pendingExamType = examType, !.showExamInProgressModal = TRUE]
  ELSE [s EXCEPT !.isPreGenerating = TRUE, !.currentExamType = examType,
                 !.currentPage = PAGES.EXAM]

\* The finally block of handleExamTypeChange / handleExamSelection.
preGenerateSettled(s) == [s EXCEPT !.isPreGenerating = FALSE]

handleAnswerSelect(s, letter) ==
  IF s.showFeedback /\ s.isReviewMode THEN s
  ELSE [s EXCEPT !.selectedAnswerLetter = letter]

handleSubmitAnswer(s) ==
  IF s.selectedAnswerLetter = Null \/ s.showFeedback THEN s
  ELSE LET q == s.questions[s.currentQuestionIndex + 1]
           isCorrect == s.selectedAnswerLetter = correctAnswerLetter(q)
       IN [s EXCEPT !.userAnswers = [s.userAnswers EXCEPT
                        ![q] = UserAnswerRecord(s.selectedAnswerLetter, isCorrect, FALSE)],
                    !.showFeedback = TRUE, !.timerActive = FALSE]

\* calculateScore / the completion branch of handleNextQuestion.
correctAnswers(s) ==
  Cardinality({q \in DOMAIN s.userAnswers : s.userAnswers[q].isCorrect})

calculateScore(s) ==
  [correct |-> correctAnswers(s), total |-> Len(s.questions),
   percentage |-> IF Len(s.questions) = 0 THEN 0
                  ELSE MathRoundPercent(correctAnswers(s), Len(s.questions))]

\* Faulty variant: the completion branch forgets setExamInProgress(false).
handleNextQuestionKeepsLock(s) ==
  IF s.currentQuestionIndex < Len(s.questions) - 1
  THEN LET nextQuestionIndex == s.currentQuestionIndex + 1 IN
       IF nextQuestionIndex = LoginPromptIndex /\ ~s.user /\ ~s.hasShownLoginPrompt
       THEN [s EXCEPT !.showLoginModal = TRUE, !.hasShownLoginPrompt = TRUE,
                      !.promptedInSession = TRUE]
       ELSE [s EXCEPT !.currentQuestionIndex = @ + 1, !.selectedAnswerLetter = Null,
                      !.showFeedback = FALSE, !.timeRemaining = TimePerQuestion,
                      !.timerActive = IF ~s.isReviewMode THEN TRUE ELSE @]
  ELSE LET percentage == calculateScore(s).percentage
           passed == percentage >= PassPercent
       IN [s EXCEPT !.isReviewMode = TRUE, !.currentPage = PAGES.REVIEW,
                    !.timerActive = FALSE,
                    !.pendingCertificate = IF passed /\ s.user THEN TRUE ELSE @,
                    !.showReviewModal = IF passed /\ s.user THEN TRUE ELSE @]

handleNextQuestion(s) ==
  IF s.currentQuestionIndex < Len(s.questions) - 1
  THEN LET nextQuestionIndex == s.currentQuestionIndex + 1 IN
       IF nextQuestionIndex = LoginPromptIndex /\ ~s.user /\ ~s.hasShownLoginPrompt
       THEN [s EXCEPT !.showLoginModal = TRUE, !.hasShownLoginPrompt = TRUE,
                      !.promptedInSession = TRUE]
       ELSE [s EXCEPT !.currentQuestionIndex = @ + 1, !.selectedAnswerLetter = Null,
                      !.showFeedback = FALSE, !.timeRemaining = TimePerQuestion,
                      !.timerActive = IF ~s.isReviewMode THEN TRUE ELSE @]
  ELSE LET percentage == calculateScore(s).percentage
           passed == percentage >= PassPercent
       IN [s EXCEPT !.isReviewMode = TRUE, !.currentPage = PAGES.REVIEW,
                    !.timerActive = FALSE, !.examInProgress = FALSE,
                    !.pendingCertificate = IF passed /\ s.user THEN TRUE ELSE @,
                    !.showReviewModal = IF passed /\ s.user THEN TRUE ELSE @]

handleReviewNavigation(s, questionIndex) ==
  LET q == s.questions[questionIndex + 1] IN
  IF s.userAnswers[q].attempted
  THEN [s EXCEPT !.currentQuestionIndex = questionIndex,
                 !.selectedAnswerLetter = s.userAnswers[q].selectedLetter,
                 !.showFeedback = TRUE]
  ELSE [s EXCEPT !.currentQuestionIndex = questionIndex,
                 !.selectedAnswerLetter = Null, !.showFeedback = FALSE]

handleRestartExam(s) ==
  [s EXCEPT !.currentQuestionIndex = 0, !.userAnswers = NoAnswers,
            !.selectedAnswerLetter = Null, !.showFeedback = FALSE,
            !.isReviewMode = FALSE, !.currentPage = PAGES.EXAM,
            !.timeRemaining = TimePerQuestion, !.timerActive = TRUE,
            !.examInProgress = TRUE, !.showCertificate = FALSE,
            !.promptedInSession = FALSE]

\* The part of handleReviewSubmit after its try/catch; pending is the
\* pendingCertificate of the render in which the review was submitted.
handleReviewSubmit(s, pending) ==
  [s EXCEPT !.showReviewModal = FALSE,
            !.showCertificate = IF pending THEN TRUE ELSE @,
            !.pendingCertificate = IF pending THEN FALSE ELSE @,
            !.reviewSubmit = [phase |-> "idle", pendingCertificate |-> FALSE]]

handleReviewClose(s) ==
  [s EXCEPT !.showReviewModal = FALSE,
            !.showCertificate = IF s.pendingCertificate THEN TRUE ELSE @,
            !.pendingCertificate = IF s.pendingCertificate THEN FALSE ELSE @]

handleContinueExam(s) ==
  [s EXCEPT !.showExamInProgressModal = FALSE, !.pendingExamType = Null,
            !.currentPage = IF s.currentPage = PAGES.HOME THEN PAGES.EXAM ELSE @]

handleAbandonExam(s) ==
  IF s.pendingExamType # Null
  THEN [s EXCEPT !.showExamInProgressModal = FALSE, !.examInProgress = FALSE,
                 !.currentExamType = s.pendingExamType, !.currentPage = PAGES.EXAM,
                 !.pendingExamType = Null, !.currentQuestionIndex = 0,
                 !.userAnswers = NoAnswers, !.selectedAnswerLetter = Null,
                 !.showFeedback = FALSE, !.isReviewMode = FALSE,
                 !.timeRemaining = TimePerQuestion, !.showCertificate = FALSE]
  ELSE [s EXCEPT !.showExamInProgressModal = FALSE, !.examInProgress = FALSE]

\* reviewMode is the isReviewMode of the render whose handleLoginSuccess the
\* login modal was given as onSuccess.
handleLoginSuccess(s, reviewMode) ==
  [s EXCEPT !.showLoginModal = FALSE, !.currentQuestionIndex = @ + 1,
            !.selectedAnswerLetter = Null, !.showFeedback = FALSE,
            !.timeRemaining = TimePerQuestion,
            !.timerActive = IF ~reviewMode THEN TRUE ELSE @,
            !.signIn = [phase |-> "idle", isReviewMode |-> FALSE]]

handleSignOut(s) == [s EXCEPT !.user = FALSE, !.hasShownLoginPrompt = FALSE]

\* ------------------------------------------------------------------ actions
\* One event: the handler's render, then the effects of that render.  Nothing
\* happens in an App that has been unmounted.
Do(next) == ~Crashed(Cur) /\ Install(Commit(Cur, next))

\* A click on the App.  While the provider's popup is open the user is in the
\* popup; timers and awaited requests go on.
Click(next) == signIn.phase # "popup" /\ Do(next)

\* The fetch of a loadQuestions call resolves with a sampled list.
LoadQuestionsResolved ==
  \E t \in loadRequests, qs \in QuestionLists : Do(loadQuestionsSuccess(Cur, t, qs))

\* The fetch of a loadQuestions call fails, or the 60 s race timeout wins.
LoadQuestionsRejected ==
  \E t \in loadRequests : Do(loadQuestionsFailure(Cur, t))

\* The interval of the timer effect fires.
TimerTick == TimerRunning(Cur) /\ Do(timerTick(Cur))

\* preGenerateExamQuestions settles (resolved or rejected).
PreGenerateSettled == isPreGenerating /\ Do(preGenerateSettled(Cur))

\* Navigation bar: the three exam type buttons.
NavExamTypeClick(t) == NavEnabled(Cur) /\ Click(handleExamTypeChange(Cur, t))

NavExamType == \E t \in ClickedTypes : NavExamTypeClick(t)

\* Navigation bar: the Exam, Contact and (mobile menu) Home buttons.
NavExamPage == NavEnabled(Cur) /\ Click([Cur EXCEPT !.currentPage = PAGES.EXAM])

NavContactPage == NavEnabled(Cur) /\ Click([Cur EXCEPT !.currentPage = PAGES.CONTACT])

NavHomePage == NavEnabled(Cur) /\ Click([Cur EXCEPT !.currentPage = PAGES.HOME])

\* Navigation bar: Sign In (shown without a user) and Sign Out (shown with one).
NavSignIn == NavEnabled(Cur) /\ ~user /\ Click([Cur EXCEPT !.showLoginModal = TRUE])

NavSignOut == NavEnabled(Cur) /\ user /\ Click(handleSignOut(Cur))

\* Question card: an option, Submit Answer, Next Question / Finish Exam.
SelectAnswer ==
  /\ QuestionShown(Cur)
  /\ \E letter \in Letters : Click(handleAnswerSelect(Cur, letter))

SubmitAnswer ==
  /\ QuestionShown(Cur)
  /\ ~showFeedback
  /\ selectedAnswerLetter # Null
  /\ Click(handleSubmitAnswer(Cur))

NextQuestion == QuestionShown(Cur) /\ showFeedback /\ Click(handleNextQuestion(Cur))

\* Login modal: the close button and "Continue without signing in" (onClose).
LoginModalClose ==
  /\ TopModal(Cur) = "login"
  /\ Click([Cur EXCEPT !.showLoginModal = FALSE])

\* Login modal: a sign-in button; the popup is awaited.
LoginModalSignIn ==
  /\ TopModal(Cur) = "login"
  /\ signIn.phase = "idle"
  /\ currentQuestionIndex < MaxIndex
  /\ Click([Cur EXCEPT !.signIn = [phase |-> "popup", isReviewMode |-> isReviewMode]])

\* signInWithPopup resolves: the auth state has the user; the profile is being saved.
SignInPopupResolved ==
  /\ signIn.phase = "popup"
  /\ Do([Cur EXCEPT !.user = TRUE, !.signIn.phase = "saving"])

\* signInWithPopup rejects: the sign-in function returns null.
SignInPopupRejected ==
  /\ signIn.phase = "popup"
  /\ Do([Cur EXCEPT !.signIn = [phase |-> "idle", isReviewMode |-> FALSE]])

\* saveUserProfile settles, the sign-in function returns the credential: onSuccess.
SignInReturned ==
  /\ signIn.phase = "saving"
  /\ Do(handleLoginSuccess(Cur, signIn.isReviewMode))

\* Exam-in-progress modal: Continue My Exam, Abandon & Start New Exam, close.
ExamInProgressContinue ==
  /\ TopModal(Cur) = "examInProgress"
  /\ Click(handleContinueExam(Cur))

ExamInProgressAbandon ==
  /\ TopModal(Cur) = "examInProgress"
  /\ Click(handleAbandonExam(Cur))

\* The close button only hides the modal.  The pendingExamType it leaves behind
\* is never read before handleExamTypeChange or handleExamSelection sets it
\* again with the next modal, so the model forgets it here.
ExamInProgressClose ==
  /\ TopModal(Cur) = "examInProgress"
  /\ Click([Cur EXCEPT !.showExamInProgressModal = FALSE, !.pendingExamType = Null])

\* Certificate: close.
CertificateClose ==
  /\ TopModal(Cur) = "certificate"
  /\ Click([Cur EXCEPT !.showCertificate = FALSE])

\* Review modal: Submit Review (awaited), Skip for now / close.
ReviewSubmit ==
  /\ TopModal(Cur) = "review"
  /\ user
  /\ reviewSubmit.phase = "idle"
  /\ Click([Cur EXCEPT !.reviewSubmit =
           [phase |-> "pending", pendingCertificate |-> pendingCertificate]])

ReviewSubmitSettled ==
  /\ reviewSubmit.phase = "pending"
  /\ Do(handleReviewSubmit(Cur, reviewSubmit.pendingCertificate))

ReviewSkip == TopModal(Cur) = "review" /\ Click(handleReviewClose(Cur))

\* Home page: an exam card, and its own sign-in and sign-out.
HomeSelectExamClick(t) ==
  /\ HomeScreen(Cur)
  /\ TopModal(Cur) = "none"
  /\ Click(handleExamSelection(Cur, t))

HomeSelectExam == \E t \in ClickedTypes : HomeSelectExamClick(t)

HomeSignIn ==
  /\ HomeScreen(Cur)
  /\ TopModal(Cur) = "none"
  /\ ~user
  /\ Click([Cur EXCEPT !.user = TRUE])

HomeSignOut ==
  /\ HomeScreen(Cur)
  /\ TopModal(Cur) = "none"
  /\ user
  /\ Click([Cur EXCEPT !.user = FALSE])

\* Error screen: Try Again reloads the page; the auth provider keeps the user.
TryAgain ==
  /\ LoadingScreen(Cur)
  /\ loadingError
  /\ ~isLoadingQuestions
  /\ signIn.phase # "popup"
  /\ Install(InitState(user))

Next ==
  \/ LoadQuestionsResolved
  \/ LoadQuestionsRejected
  \/ TimerTick
  \/ PreGenerateSettled
  \/ NavExamType
  \/ NavExamPage
  \/ NavContactPage
  \/ NavHomePage
  \/ NavSignIn
  \/ NavSignOut
  \/ SelectAnswer
  \/ SubmitAnswer
  \/ NextQuestion
  \/ LoginModalClose
  \/ LoginModalSignIn
  \/ SignInPopupResolved
  \/ SignInPopupRejected
  \/ SignInReturned
  \/ ExamInProgressContinue
  \/ ExamInProgressAbandon
  \/ ExamInProgressClose
  \/ CertificateClose
  \/ ReviewSubmit
  \/ ReviewSubmitSettled
  \/ ReviewSkip
  \/ HomeSelectExam
  \/ HomeSignIn
  \/ HomeSignOut
  \/ TryAgain

Spec == Init /\ [][Next]_vars

\* ------------------------------------------------------------ session terms
\* The question on display, when the index is inside the list.
IndexInList == currentQuestionIndex < Len(questions)

CurrentQuestion == questions[currentQuestionIndex + 1]

\* A question is active: questions loaded, no feedback, not in review mode, and
\* the current question has no answer record.
QuestionActive ==
  /\ Len(questions) > 0
  /\ IndexInList
  /\ ~showFeedback
  /\ ~isReviewMode
  /\ ~userAnswers[CurrentQuestion].attempted

\* A step inside one session: the sampled list stays.
SameSession == questions' = questions

\* A step in which handleNextQuestion raises the login checkpoint.
CheckpointRaised == ~hasShownLoginPrompt /\ hasShownLoginPrompt'

\* --------------------------------------------------------------------- C1
\* C1: while a question is active and has no answer record, no step of the
\* session changes currentQuestionIndex.
C1_ActiveQuestionKeepsIndex ==
  [][QuestionActive /\ SameSession => currentQuestionIndex' = currentQuestionIndex]_vars

\* --------------------------------------------------------------------- C2
\* C2: a tick that expires the countdown of the active question writes the
\* timed-out record of that question, shows the feedback and stops the timer;
\* and a timed-out record is only ever written for a question without a record.
C2_TimeoutHandledOnce ==
  [][ /\ (TimerTick /\ QuestionActive /\ timeRemaining <= 1)
         => /\ userAnswers' = [userAnswers EXCEPT
                                 ![CurrentQuestion] = UserAnswerRecord(Null, FALSE, TRUE)]
            /\ showFeedback'
            /\ ~timerActive'
            /\ ~TimerRunning([timerActive |-> timerActive', timeRemaining |-> timeRemaining',
                              showFeedback |-> showFeedback', isReviewMode |-> isReviewMode'])
            /\ currentQuestionIndex' = currentQuestionIndex
      /\ \A q \in QuestionIds :
           (userAnswers'[q].timedOut /\ userAnswers'[q] # userAnswers[q])
             => ~userAnswers[q].attempted ]_vars

\* A question timed out on the exam page: its record, the feedback, the timer.
C2_Witness ==
  /\ currentPage = PAGES.EXAM
  /\ Len(questions) > 0
  /\ IndexInList
  /\ userAnswers[CurrentQuestion] = UserAnswerRecord(Null, FALSE, TRUE)
  /\ showFeedback
  /\ ~timerActive
  /\ selectedAnswerLetter = Null

\* --------------------------------------------------------------------- C3
\* C3: within a session whose list is longer than LoginPromptIndex, an advance
\* (Next Question) that moves an unauthenticated user to index LoginPromptIndex
\* happens only after the login checkpoint was raised in that session.
C3_CheckpointBeforeGatedIndex ==
  [][ ( /\ NextQuestion
        /\ Len(questions) > LoginPromptIndex
        /\ currentQuestionIndex # LoginPromptIndex
        /\ currentQuestionIndex' = LoginPromptIndex
        /\ ~user )
      => promptedInSession ]_vars

\* --------------------------------------------------------------------- C4
\* C4: the login checkpoint is raised at most once in a session, and never for
\* an authenticated user.
C4_CheckpointAtMostOnce ==
  [][CheckpointRaised => (~promptedInSession /\ ~user)]_vars

\* --------------------------------------------------------------------- C5
\* The login checkpoint is pending: handleNextQuestion raised it in this
\* session and the login modal is still shown over the answered question.
CheckpointPending ==
  /\ showLoginModal
  /\ promptedInSession
  /\ hasShownLoginPrompt
  /\ showFeedback
  /\ currentQuestionIndex = LoginPromptIndex - 1

C6_SwitchIsIntercepted ==
  [][ \A t \in ClickedTypes :
        ( /\ examInProgress
          /\ t # currentExamType
          /\ (NavExamTypeClick(t) \/ HomeSelectExamClick(t)) )
        => /\ showExamInProgressModal'
           /\ pendingExamType' = t
           /\ UNCHANGED <<currentExamType, questions, currentQuestionIndex, userAnswers>> ]_vars

\* The choice raised on the home page over a session with an answered question.
C6_Witness ==
  /\ showExamInProgressModal
  /\ examInProgress
  /\ currentPage = PAGES.HOME
  /\ pendingExamType \in ClickedTypes \ {currentExamType}
  /\ Len(questions) > 0
  /\ \E q \in QuestionIds : userAnswers[q].attempted

\* --------------------------------------------------------------------- C7
\* C7: Continue My Exam leaves the answers, the index and the questions as they are.
C7_ResumeKeepsSession ==
  [][ExamInProgressContinue
       => UNCHANGED <<userAnswers, currentQuestionIndex, questions>>]_vars

\* --------------------------------------------------------------------- C8
\* C8: while an exam is in progress, no step other than the abandonment
\* replaces the sampled list.
C8_ListFixed ==
  [][(examInProgress /\ Len(questions) > 0 /\ ~ExamInProgressAbandon)
       => questions' = questions]_vars

\* --------------------------------------------------------------------- C9
\* A session exists and is not completed.
SessionLoaded == Len(questions) > 0 /\ ~isReviewMode

\* The completion branch of handleNextQuestion is taken.
Completion ==
  /\ NextQuestion
  /\ currentQuestionIndex = Len(questions) - 1
  /\ isReviewMode'

\* C9 as stated: examInProgress is true from Loading on.
C9_LockFromLoading ==
  (isLoadingQuestions \/ SessionLoaded) => examInProgress

\* C9, from the installation of the questions on: examInProgress is true while
\* the session is loaded and not completed, and within a loaded session only the
\* completion and the abandonment clear it.
C9_LockWhileLoaded ==
  /\ [](SessionLoaded => examInProgress)
  /\ [][(examInProgress /\ ~examInProgress' /\ Len(questions) > 0)
          => (Completion \/ ExamInProgressAbandon)]_vars

\* A loaded session with an answered question, under the lock.
C9_Witness ==
  /\ SessionLoaded
  /\ examInProgress
  /\ currentPage = PAGES.EXAM
  /\ IndexInList
  /\ userAnswers[CurrentQuestion].attempted
  /\ ~isLoadingQuestions

\* -------------------------------------------------------------------- C10
\* The certificate is on display.
CertificateShown == showCertificate /\ TopModal(Cur) = "certificate"

\* C10: the certificate is on display only in review mode, for an authenticated
\* user, with a percentage of at least PassPercent.
C10_CertificateGate ==
  CertificateShown
    => /\ isReviewMode
       /\ user
       /\ Len(questions) > 0
       /\ calculateScore(Cur).percentage >= PassPercent


\* -------------------------------------------------------------------- C11
\* C11: the certificate is pending only while the review prompt is open, and
\* every step that closes the prompt (the settled submission, whether it
\* succeeded or failed, and the skip) shows the certificate and ends the pending.
C11_PromptLeadsToCertificate ==
  /\ [](pendingCertificate => showReviewModal)
  /\ [][(showReviewModal /\ ~showReviewModal')
          => (showCertificate' /\ ~pendingCertificate')]_vars

\* The prompt of a passed, authenticated attempt was left: the certificate is
\* on display and nothing is pending.
C11_Witness ==
  /\ CertificateShown
  /\ isReviewMode
  /\ ~showReviewModal
  /\ ~pendingCertificate
  /\ calculateScore(Cur).percentage >= PassPercent


\* -------------------------------------------------------------------- C12
\* The scoring is tried on every total up to ScoreMaxTotal and every number of
\* correct answers: the attempt stands at its last question, answered, and
\* Finish Exam is clicked.
ScoreInput(n, c, u) ==
  [InitState(u) EXCEPT
     !.questions = [i \in 1..n |-> i],
     !.userAnswers = [q \in 1..n |-> IF q <= c THEN UserAnswerRecord("A", TRUE, FALSE)
                                              ELSE UserAnswerRecord("B", FALSE, FALSE)],
     !.currentQuestionIndex = n - 1,
     !.selectedAnswerLetter = IF n <= c THEN "A" ELSE "B",
     !.showFeedback = TRUE,
     !.currentPage = PAGES.EXAM,
     !.examInProgress = TRUE]

InitScore ==
  \E n \in 1..ScoreMaxTotal, c \in 0..ScoreMaxTotal, u \in BOOLEAN :
    /\ c <= n
    /\ LET s == ScoreInput(n, c, u) IN
       /\ questions = s.questions
       /\ currentQuestionIndex = s.currentQuestionIndex
       /\ userAnswers = s.userAnswers
       /\ selectedAnswerLetter = s.selectedAnswerLetter
       /\ showFeedback = s.showFeedback
       /\ currentPage = s.currentPage
       /\ currentExamType = s.currentExamType
       /\ isReviewMode = s.isReviewMode
       /\ isLoadingQuestions = s.isLoadingQuestions
       /\ loadingError = s.loadingError
       /\ isPreGenerating = s.isPreGenerating
       /\ timeRemaining = s.timeRemaining
       /\ timerActive = s.timerActive
       /\ user = s.user
       /\ showLoginModal = s.showLoginModal
       /\ hasShownLoginPrompt = s.hasShownLoginPrompt
       /\ examInProgress = s.examInProgress
       /\ showExamInProgressModal = s.showExamInProgressModal
       /\ pendingExamType = s.pendingExamType
       /\ showCertificate = s.showCertificate
       /\ showReviewModal = s.showReviewModal
       /\ pendingCertificate = s.pendingCertificate
       /\ loadRequests = s.loadRequests
       /\ timeUpClosure = s.timeUpClosure
       /\ signIn = s.signIn
       /\ reviewSubmit = s.reviewSubmit
       /\ promptedInSession = s.promptedInSession
       /\ examPool = s.examPool
       /\ loadCall = s.loadCall

SpecScore == InitScore /\ [][NextQuestion]_vars

\* p is the percentage n of d rounded to the nearest integer, a half upwards.
IsRounded(p, n, d) == 2 * p * d - d <= 200 * n /\ 200 * n < 2 * p * d + d

\* The attempt was finished by an authenticated user: it passed exactly when
\* the review prompt and the pending certificate were raised.
FinishedByUser == isReviewMode /\ user

\* C12: for every answer map and every total > 0 the percentage is
\* round(correct / total * 100), the attempt passes exactly when the percentage
\* is at least PassPercent; 5 of 50 gives 10 and fails, 40 of 50 gives 80 and passes.
C12_Scoring ==
  (isReviewMode /\ Len(questions) > 0) =>
    LET r == calculateScore(Cur) IN
    /\ IsRounded(r.percentage, r.correct, r.total)
    /\ FinishedByUser => (pendingCertificate <=> r.percentage >= PassPercent)
    /\ (r.correct = 5 /\ r.total = 50)
         => (r.percentage = 10 /\ (FinishedByUser => ~pendingCertificate))
    /\ (r.correct = 40 /\ r.total = 50)
         => (r.percentage = 80 /\ (FinishedByUser => pendingCertificate))


\* ------------------------------------------------------- the load, in time
\* One loadQuestions call followed second by second: the race against
\* RaceTimeout, and inside it getOrGenerateExamQuestions with the exam lookup,
\* the generation request under its abort timer, the wait, and the sampling.
\* A request that is never answered is a behaviour in which its answer never
\* comes.

\* loadQuestions reaches its Promise.race for exam type t: the lookup is sent
\* and the race timer is armed.
loadQuestionsRace(s, t) ==
  [s EXCEPT !.loadCall =
     [phase |-> "lookup", racePending |-> TRUE, raceTimer |-> RaceTimeout,
      abortTimer |-> Unarmed, saveTimer |-> Unarmed, generation |-> "none",
      sampled |-> FALSE, sample |-> <<>>, examType |-> t, questions_count |-> 0]]

\* The race settles with the first result; loadQuestions continues after its
\* await (result.ok) or in its catch.  A later result is discarded.
raceSettled(s, result) ==
  LET t == s.loadCall.examType
      settled == [s EXCEPT !.loadCall.racePending = FALSE,
                           !.loadCall.raceTimer = Unarmed]
  IN  IF ~s.loadCall.racePending THEN s
      ELSE IF result.ok THEN loadQuestionsSuccess(settled, t, result.questions)
      ELSE loadQuestionsFailure(settled, t)

Thrown == [ok |-> FALSE, questions |-> <<>>]

\* Faulty variant: the sampled list is returned without the check for emptiness.
sampledQuestionsUnchecked(qs) == [ok |-> TRUE, questions |-> qs]

\* The end of getOrGenerateExamQuestions: an empty sample is thrown as
\* "No questions available", any other is returned.
sampledQuestions(qs) == [ok |-> Len(qs) > 0, questions |-> qs]

\* The question counts of the exam that getExamsByType returns: below the
\* target of the pool and at it.
ExamCounts == {PoolTarget - 1, PoolTarget}

\* getExamsByType is answered: with an exam (of questions_count questions),
\* with none, or with an error.
lookupAnswered(s, outcome, questions_count) ==
  IF outcome = "found"
  THEN [s EXCEPT !.loadCall.phase = "generating",
                 !.loadCall.abortTimer = GenerationTimeout,
                 !.loadCall.questions_count = questions_count]
  ELSE raceSettled([s EXCEPT !.loadCall.phase = "threw"], Thrown)

\* Faulty variant: a failed generation is rethrown out of getOrGenerateExamQuestions.
generationAnsweredFatal(s, ok) ==
  IF ok
  THEN [s EXCEPT !.loadCall.phase = "saving", !.loadCall.generation = "ok",
                 !.loadCall.abortTimer = Unarmed, !.loadCall.saveTimer = SaveDelay]
  ELSE raceSettled([s EXCEPT !.loadCall.phase = "threw",
                             !.loadCall.generation = "failed",
                             !.loadCall.abortTimer = Unarmed], Thrown)

\* The generation request is answered: the abort timer is cleared; a success is
\* followed by the wait, a failure (error response or network error) is caught
\* and followed by the sampling.
generationAnswered(s, ok) ==
  IF ok
  THEN [s EXCEPT !.loadCall.phase = "saving", !.loadCall.generation = "ok",
                 !.loadCall.abortTimer = Unarmed, !.loadCall.saveTimer = SaveDelay]
  ELSE [s EXCEPT !.loadCall.phase = "sampling", !.loadCall.generation = "failed",
                 !.loadCall.abortTimer = Unarmed]

\* The abort timer fires: the request is aborted, the error is caught and
\* followed by the sampling.
generationAborted(s) ==
  [s EXCEPT !.loadCall.phase = "sampling", !.loadCall.generation = "timedOut",
            !.loadCall.abortTimer = Unarmed]

saveDelayElapsed(s) ==
  [s EXCEPT !.loadCall.phase = "sampling", !.loadCall.saveTimer = Unarmed]

\* getRandomExamQuestions is answered with the list qs.
samplingAnswered(s, qs) ==
  LET result == sampledQuestions(qs)
  IN  raceSettled([s EXCEPT !.loadCall.phase = IF result.ok THEN "returned" ELSE "threw",
                            !.loadCall.sampled = TRUE,
                            !.loadCall.sample = qs], result)

\* getRandomExamQuestions fails.
samplingFailed(s) == raceSettled([s EXCEPT !.loadCall.phase = "threw"], Thrown)

\* One second on every armed timer.
Elapse(timer) == IF timer > 0 THEN timer - 1 ELSE timer

secondPasses(s) ==
  [s EXCEPT !.loadCall.raceTimer = Elapse(@), !.loadCall.abortTimer = Elapse(@),
            !.loadCall.saveTimer = Elapse(@)]

\* A timer is due and has not fired.
RaceDue(s) == s.loadCall.racePending /\ s.loadCall.raceTimer = 0

AbortDue(s) == s.loadCall.phase = "generating" /\ s.loadCall.abortTimer = 0

SaveDue(s) == s.loadCall.phase = "saving" /\ s.loadCall.saveTimer = 0

\* Home page: an exam card; the load effect of the following render starts the
\* loadQuestions call that is followed.
SelectExamTimed ==
  \E t \in ClickedTypes :
    /\ HomeScreen(Cur)
    /\ TopModal(Cur) = "none"
    /\ signIn.phase # "popup"
    /\ ~Crashed(Cur)
    /\ LET r == Commit(Cur, handleExamSelection(Cur, t))
       IN  Install(IF r.loadRequests # loadRequests
                   THEN loadQuestionsRace(r, r.currentExamType)
                   ELSE r)

LookupAnswered ==
  /\ loadCall.phase = "lookup"
  /\ \E outcome \in {"found", "none", "error"} :
       \E questions_count \in (IF outcome = "found" THEN ExamCounts ELSE {0}) :
         Do(lookupAnswered(Cur, outcome, questions_count))

GenerationAnswered ==
  /\ loadCall.phase = "generating"
  /\ \E ok \in BOOLEAN : Do(generationAnswered(Cur, ok))

\* The race timer was armed before the lookup was awaited and the abort timer
\* after it, both for the same delay: of the two the race timer fires first.
GenerationAborted == AbortDue(Cur) /\ ~RaceDue(Cur) /\ Do(generationAborted(Cur))

SaveDelayElapsed == SaveDue(Cur) /\ Do(saveDelayElapsed(Cur))

SamplingAnswered ==
  /\ loadCall.phase = "sampling"
  /\ \E qs \in QuestionLists \cup {<<>>} : Do(samplingAnswered(Cur, qs))

SamplingFailed == loadCall.phase = "sampling" /\ Do(samplingFailed(Cur))

RaceTimedOut == RaceDue(Cur) /\ Do(raceSettled(Cur, Thrown))

\* Time passes when no due timer is left to fire.
SecondPasses ==
  /\ ~RaceDue(Cur) /\ ~AbortDue(Cur) /\ ~SaveDue(Cur)
  /\ secondPasses(Cur) # Cur
  /\ Do(secondPasses(Cur))

NextLoad ==
  \/ SelectExamTimed
  \/ LookupAnswered
  \/ GenerationAnswered
  \/ GenerationAborted
  \/ SaveDelayElapsed
  \/ SamplingAnswered
  \/ SamplingFailed
  \/ RaceTimedOut
  \/ SecondPasses
  \/ TimerTick
  \/ PreGenerateSettled
  \/ TryAgain

SpecLoad == Init /\ [][NextLoad]_vars


\* --------------------------------------------------------------- C13 - C16
\* The sampling was answered with a list that is not empty: the pool is not empty.
PoolSampled == loadCall.sampled /\ Len(loadCall.sample) > 0

\* The followed load has ended with its questions installed.
LoadedFromPool ==
  /\ ~isLoadingQuestions
  /\ ~loadingError
  /\ questions = loadCall.sample
  /\ examInProgress

\* C13: when the generation request exceeds its time bound and the pool is not
\* empty, the load ends with the questions sampled from the pool and no error
\* is shown to the user.
C13_GenerationTimeoutFallsThrough ==
  (loadCall.generation = "timedOut" /\ PoolSampled) => LoadedFromPool

RetryOffered(s) == LoadingScreen(s) /\ s.loadingError /\ ~s.isLoadingQuestions

SpecLoadFair ==
  /\ SpecLoad
  /\ WF_vars(SecondPasses)
  /\ WF_vars(TimerTick)
  /\ WF_vars(RaceTimedOut)
  /\ WF_vars(GenerationAborted)
  /\ WF_vars(SaveDelayElapsed)

\* The loading screen is up with no error block.
LoadingShown == LoadingScreen(Cur) /\ ~RetryOffered(Cur)

FirstQuestionShown == QuestionShown(Cur) /\ currentQuestionIndex = 0

\* C16: after an exam is selected the loading screen is eventually replaced by
\* the first question or by the retryable error, whichever backend request
\* never completes.
C16_LoadingEnds == LoadingShown ~> (FirstQuestionShown \/ RetryOffered(Cur))


\* --------------------------------------------------------------------- C17
\* A step enters a question: the list or the index changes and a question is
\* active afterwards.
QuestionEntered ==
  /\ questions' # questions \/ currentQuestionIndex' # currentQuestionIndex
  /\ QuestionActive'

\* C17: every entry into an active question (the first question after a load,
\* the advance, the resumption after the login checkpoint) starts the countdown
\* at the full time per question with the timer running.
C17_EntryStartsCountdown ==
  [][QuestionEntered => (timeRemaining' = TimePerQuestion /\ timerActive')]_vars


\* The question after the login checkpoint is on display, entered by the
\* resumption, with the full time and the timer running.
C17_Witness ==
  /\ QuestionShown(Cur)
  /\ QuestionActive
  /\ promptedInSession
  /\ user
  /\ currentQuestionIndex = LoginPromptIndex
  /\ timeRemaining = TimePerQuestion
  /\ timerActive


\* --------------------------------------------------------------------- C18
\* A step counts the time down, or records a timeout.
CountedDown == timeRemaining' < timeRemaining

TimeoutRecorded ==
  \E q \in QuestionIds : userAnswers'[q].timedOut /\ userAnswers'[q] # userAnswers[q]

\* C18: in every state where feedback is shown or review mode is on, no step
\* counts the time down and no step records a timeout.
C18_CountdownSuspended ==
  [][(showFeedback \/ isReviewMode) => (~CountedDown /\ ~TimeoutRecorded)]_vars

\* Feedback after a submitted answer, left with time on the clock.
C18_Witness ==
  /\ QuestionShown(Cur)
  /\ showFeedback
  /\ timeRemaining < TimePerQuestion
  /\ timeRemaining > 0
  /\ IndexInList
  /\ userAnswers[CurrentQuestion].attempted
  /\ ~userAnswers[CurrentQuestion].timedOut


\* ------------------------------------------- the App with the question files
\* The App that reads its questions from the static files: it opens on the exam
\* page, its load effect depends on the exam type alone and leaves the old list
\* in place while it fetches, and it has no home page, no lock and no
\* certificate.  Its timer effects and the handlers not restated here are those
\* above, word for word.
LoadDepsLegacy(s) == <<s.currentExamType>>

loadQuestionsStartLegacy(s) == [s EXCEPT !.loadRequests = @ \cup {s.currentExamType}]

RunEffectsLegacy(prev, cur) ==
  LET loadFires == LoadDepsLegacy(cur) # LoadDepsLegacy(prev)
      timerFires == TimerDeps(cur) # TimerDeps(prev)
      startFires == /\ StartTimerDeps(cur) # StartTimerDeps(prev)
                    /\ Len(cur.questions) > 0
                    /\ ~cur.isReviewMode
      a == IF timerFires
           THEN [cur EXCEPT !.timeUpClosure =
                   IF TimerRunning(cur)
                   THEN [currentQuestionIndex |-> cur.currentQuestionIndex,
                         questions |-> cur.questions]
                   ELSE NoClosure]
           ELSE cur
      b == IF loadFires THEN loadQuestionsStartLegacy(a) ELSE a
  IN  IF startFires
      THEN [b EXCEPT !.timeRemaining = TimePerQuestion, !.timerActive = TRUE]
      ELSE b

CommitLegacy(prev, next) ==
  LET afterFirst == RunEffectsLegacy(prev, next)
  IN  RunEffectsLegacy(next, afterFirst)

\* The state after the mount: the load effect has sent its first fetch.
InitStateLegacy(u) ==
  [InitState(u) EXCEPT !.currentPage = PAGES.EXAM,
                       !.loadRequests = {"solutions_architect"}]

InitLegacy ==
  \E u \in BOOLEAN :
    LET s == InitStateLegacy(u) IN
    /\ questions = s.questions
    /\ currentQuestionIndex = s.currentQuestionIndex
    /\ userAnswers = s.userAnswers
    /\ selectedAnswerLetter = s.selectedAnswerLetter
    /\ showFeedback = s.showFeedback
    /\ currentPage = s.currentPage
    /\ currentExamType = s.currentExamType
    /\ isReviewMode = s.isReviewMode
    /\ isLoadingQuestions = s.isLoadingQuestions
    /\ loadingError = s.loadingError
    /\ isPreGenerating = s.isPreGenerating
    /\ timeRemaining = s.timeRemaining
    /\ timerActive = s.timerActive
    /\ user = s.user
    /\ showLoginModal = s.showLoginModal
    /\ hasShownLoginPrompt = s.hasShownLoginPrompt
    /\ examInProgress = s.examInProgress
    /\ showExamInProgressModal = s.showExamInProgressModal
    /\ pendingExamType = s.pendingExamType
    /\ showCertificate = s.showCertificate
    /\ showReviewModal = s.showReviewModal
    /\ pendingCertificate = s.pendingCertificate
    /\ loadRequests = s.loadRequests
    /\ timeUpClosure = s.timeUpClosure
    /\ signIn = s.signIn
    /\ reviewSubmit = s.reviewSubmit
    /\ promptedInSession = s.promptedInSession
    /\ examPool = s.examPool
    /\ loadCall = s.loadCall

\* What is shown: the loading screen while the list is empty, else the
\* navigation with the page, and the login modal over it.
LoadingScreenLegacy(s) == Len(s.questions) = 0

CrashedLegacy(s) ==
  /\ ~LoadingScreenLegacy(s)
  /\ s.currentPage = PAGES.EXAM
  /\ ~s.isReviewMode
  /\ s.currentQuestionIndex >= Len(s.questions)

NavEnabledLegacy(s) ==
  ~LoadingScreenLegacy(s) /\ ~CrashedLegacy(s) /\ ~s.showLoginModal

\* Faulty variant: renderExamPage without its early return in review mode.
QuestionShownInReviewLegacy(s) == NavEnabledLegacy(s) /\ s.currentPage = PAGES.EXAM

\* renderExamPage shows the question card outside review mode, and in review
\* mode the summary with Retake Exam and the navigation grid in its place.
QuestionShownLegacy(s) ==
  NavEnabledLegacy(s) /\ s.currentPage = PAGES.EXAM /\ ~s.isReviewMode

ReviewShownLegacy(s) ==
  NavEnabledLegacy(s) /\ s.currentPage = PAGES.EXAM /\ s.isReviewMode

loadQuestionsSuccessLegacy(s, t, qs) ==
  [s EXCEPT !.questions = qs, !.currentQuestionIndex = 0, !.userAnswers = NoAnswers,
            !.selectedAnswerLetter = Null, !.showFeedback = FALSE,
            !.isReviewMode = FALSE, !.timeRemaining = TimePerQuestion,
            !.timerActive = FALSE, !.loadRequests = @ \ {t},
            !.promptedInSession = FALSE]

loadQuestionsFailureLegacy(s, t) ==
  [s EXCEPT !.questions = <<>>, !.loadRequests = @ \ {t}]

handleExamTypeChangeLegacy(s, examType) ==
  [s EXCEPT !.currentExamType = examType, !.currentPage = PAGES.EXAM]

handleNextQuestionLegacy(s) ==
  IF s.currentQuestionIndex < Len(s.questions) - 1
  THEN handleNextQuestion(s)
  ELSE [s EXCEPT !.isReviewMode = TRUE, !.currentPage = PAGES.REVIEW,
                 !.timerActive = FALSE]

handleRestartExamLegacy(s) ==
  [s EXCEPT !.currentQuestionIndex = 0, !.userAnswers = NoAnswers,
            !.selectedAnswerLetter = Null, !.showFeedback = FALSE,
            !.isReviewMode = FALSE, !.currentPage = PAGES.EXAM,
            !.timeRemaining = TimePerQuestion, !.timerActive = TRUE,
            !.promptedInSession = FALSE]

DoLegacy(next) == ~CrashedLegacy(Cur) /\ Install(CommitLegacy(Cur, next))

ClickLegacy(next) == signIn.phase # "popup" /\ DoLegacy(next)

LoadResolvedLegacy ==
  \E t \in loadRequests, qs \in QuestionLists :
    DoLegacy(loadQuestionsSuccessLegacy(Cur, t, qs))

LoadRejectedLegacy ==
  \E t \in loadRequests : DoLegacy(loadQuestionsFailureLegacy(Cur, t))

TimerTickLegacy == TimerRunning(Cur) /\ DoLegacy(timerTick(Cur))

NavExamTypeLegacy ==
  /\ NavEnabledLegacy(Cur)
  /\ \E t \in ClickedTypes : ClickLegacy(handleExamTypeChangeLegacy(Cur, t))

NavExamPageLegacy ==
  NavEnabledLegacy(Cur) /\ ClickLegacy([Cur EXCEPT !.currentPage = PAGES.EXAM])

NavContactPageLegacy ==
  NavEnabledLegacy(Cur) /\ ClickLegacy([Cur EXCEPT !.currentPage = PAGES.CONTACT])

NavSignInLegacy ==
  NavEnabledLegacy(Cur) /\ ~user /\ ClickLegacy([Cur EXCEPT !.showLoginModal = TRUE])

NavSignOutLegacy == NavEnabledLegacy(Cur) /\ user /\ ClickLegacy(handleSignOut(Cur))

SelectAnswerLegacy ==
  /\ QuestionShownLegacy(Cur)
  /\ \E letter \in Letters : ClickLegacy(handleAnswerSelect(Cur, letter))

SubmitAnswerLegacy ==
  /\ QuestionShownLegacy(Cur)
  /\ ~showFeedback
  /\ selectedAnswerLetter # Null
  /\ ClickLegacy(handleSubmitAnswer(Cur))

NextQuestionLegacy ==
  QuestionShownLegacy(Cur) /\ showFeedback /\ ClickLegacy(handleNextQuestionLegacy(Cur))

\* Review summary: Retake Exam, Continue Review, and the navigation grid.
RetakeExamLegacy == ReviewShownLegacy(Cur) /\ ClickLegacy(handleRestartExamLegacy(Cur))

ContinueReviewLegacy ==
  ReviewShownLegacy(Cur) /\ ClickLegacy([Cur EXCEPT !.currentPage = PAGES.EXAM])

ReviewNavigateLegacy ==
  /\ ReviewShownLegacy(Cur)
  /\ \E i \in 0..(Len(questions) - 1) : ClickLegacy(handleReviewNavigation(Cur, i))


\* The login modal, over the navigation and the page.
LoginModalShownLegacy(s) ==
  ~LoadingScreenLegacy(s) /\ ~CrashedLegacy(s) /\ s.showLoginModal

LoginModalCloseLegacy ==
  /\ LoginModalShownLegacy(Cur)
  /\ ClickLegacy([Cur EXCEPT !.showLoginModal = FALSE])

LoginModalSignInLegacy ==
  /\ LoginModalShownLegacy(Cur)
  /\ signIn.phase = "idle"
  /\ currentQuestionIndex < MaxIndex
  /\ ClickLegacy([Cur EXCEPT !.signIn = [phase |-> "popup", isReviewMode |-> isReviewMode]])

SignInPopupResolvedLegacy ==
  /\ signIn.phase = "popup"
  /\ DoLegacy([Cur EXCEPT !.user = TRUE, !.signIn.phase = "saving"])

SignInPopupRejectedLegacy ==
  /\ signIn.phase = "popup"
  /\ DoLegacy([Cur EXCEPT !.signIn = [phase |-> "idle", isReviewMode |-> FALSE]])

SignInReturnedLegacy ==
  /\ signIn.phase = "saving"
  /\ DoLegacy(handleLoginSuccess(Cur, signIn.isReviewMode))

NextLegacy ==
  \/ LoadResolvedLegacy
  \/ LoadRejectedLegacy
  \/ TimerTickLegacy
  \/ NavExamTypeLegacy
  \/ NavExamPageLegacy
  \/ NavContactPageLegacy
  \/ NavSignInLegacy
  \/ NavSignOutLegacy
  \/ SelectAnswerLegacy
  \/ SubmitAnswerLegacy
  \/ NextQuestionLegacy
  \/ RetakeExamLegacy
  \/ ContinueReviewLegacy
  \/ ReviewNavigateLegacy
  \/ LoginModalCloseLegacy
  \/ LoginModalSignInLegacy
  \/ SignInPopupResolvedLegacy
  \/ SignInPopupRejectedLegacy
  \/ SignInReturnedLegacy

SpecLegacy == InitLegacy /\ [][NextLegacy]_vars


\* --------------------------------------------------------------------- C19
\* C19: in review mode the answer map never changes, whichever question the
\* navigation grid has opened, one without an answer record included.
C19_ReviewKeepsAnswers ==
  [][(isReviewMode /\ isReviewMode') => userAnswers' = userAnswers]_vars

\* The review summary is shown and the grid has opened a question that has no
\* answer record.
C19_Witness ==
  /\ ReviewShownLegacy(Cur)
  /\ IndexInList
  /\ ~userAnswers[CurrentQuestion].attempted
  /\ ~showFeedback
  /\ \E q \in QuestionIds : userAnswers[q].attempted

\* --------------------------------------------------------------------- C20
\* C20: Retake Exam from the review summary brings the loading screen back and
\* sends a new fetch; the list of the finished session is not used again.
C20_RestartLoadsFreshSet ==
  [][RetakeExamLegacy
      => (/\ LoadingScreenLegacy(Cur)'
          /\ loadRequests' # loadRequests
          /\ questions' # questions)]_vars


\* --------------------------------------------------------------------- C21
\* C21: the step of Abandon leaves the answer map empty and the index at 0, and
\* leaves no countdown running; and while the questions of the new session are
\* awaited no countdown step and no timeout happens.
C21_AbandonStopsCountdown ==
  /\ [][ExamInProgressAbandon
          => (/\ userAnswers' = NoAnswers
              /\ currentQuestionIndex' = 0
              /\ ~TimerRunning(Cur)')]_vars
  /\ [][(Len(questions) = 0 /\ ~examInProgress)
          => (~CountedDown /\ ~TimeoutRecorded)]_vars


\* --------------------------------------------------------------------- C22
\* Feedback is shown for the question at the index.
FeedbackShown == Len(questions) > 0 /\ IndexInList /\ showFeedback /\ ~isReviewMode

\* Within the session the feedback is left: the index moves, the feedback goes
\* or review mode is entered.
FeedbackLeft ==
  /\ SameSession
  /\ \/ currentQuestionIndex' # currentQuestionIndex
     \/ ~showFeedback'
     \/ isReviewMode' # isReviewMode

\* C22: the submission, the timeout and the timer tick neither move the index
\* nor enter review mode; and feedback, once shown, is left within the session
\* only by the advance action, or by the sign-in that resolves the checkpoint
\* which the advance action raised.
C22_FeedbackUntilAdvance ==
  /\ [][(SubmitAnswer \/ TimerTick)
          => (currentQuestionIndex' = currentQuestionIndex /\ isReviewMode' = isReviewMode)]_vars
  /\ [][(FeedbackShown /\ FeedbackLeft)
          => (NextQuestion \/ (CheckpointPending /\ SignInReturned))]_vars


\* --------------------------------------------------------------------- C23
\* What a submission with letter L on question q has to record.
SubmittedRecord(L, q) ==
  [selectedLetter |-> L, isCorrect |-> (L = correctAnswerLetter(q)),
   attempted |-> TRUE, timedOut |-> FALSE]

\* C23: wherever a question is on display, handleSubmitAnswer with a selected
\* letter and no feedback records exactly the submitted record for the current
\* question, leaves the other records, shows feedback and stops the timer;
\* with no selection or with feedback shown it changes nothing.  The Submit
\* Answer step installs that record and leaves no countdown running.
C23_SubmitRecords ==
  /\ [](QuestionShown(Cur) =>
          LET r == handleSubmitAnswer(Cur) IN
          IF selectedAnswerLetter = Null \/ showFeedback
          THEN r = Cur
          ELSE /\ r.userAnswers[CurrentQuestion]
                    = SubmittedRecord(selectedAnswerLetter, CurrentQuestion)
               /\ \A q \in QuestionIds \ {CurrentQuestion} :
                    r.userAnswers[q] = userAnswers[q]
               /\ r.showFeedback
               /\ ~r.timerActive
               /\ r.currentQuestionIndex = currentQuestionIndex)
  /\ [][SubmitAnswer
          => (/\ userAnswers'[CurrentQuestion]
                   = SubmittedRecord(selectedAnswerLetter, CurrentQuestion)
              /\ showFeedback'
              /\ ~timerActive'
              /\ ~TimerRunning(Cur)')]_vars

\* A wrong answer was submitted and its feedback is shown.
C23_Witness ==
  /\ QuestionShown(Cur)
  /\ showFeedback
  /\ ~timerActive
  /\ userAnswers[CurrentQuestion] = SubmittedRecord("B", CurrentQuestion)
  /\ ~userAnswers[CurrentQuestion].isCorrect


\* ------------------------------------------------- the exam's question pool
\* The content store's two endpoints for one exam: generate-questions (the
\* enrichment policy and the insertion of generated questions) and
\* random-questions (the sampler), followed by the client's reading of the
\* sampler's reply.

\* The amounts a caller asks generate-questions for: the size of one exam and
\* the size of the pool.
CallerAmounts == {MaxQuestions, PoolTarget}

\* The limits a caller gives random-questions.
Limits == {MaxQuestions, PoolTarget}

\* The batch sizes of an enrichment.
EnrichmentBatches == MinEnrichmentBatch..(2 * MinEnrichmentBatch)

Max(a, b) == IF a >= b THEN a ELSE b

Min(a, b) == IF a <= b THEN a ELSE b

RECURSIVE SumRows(_, _)
SumRows(rows, ts) ==
  IF ts = {} THEN 0
  ELSE LET t == CHOOSE x \in ts : TRUE IN rows[t] + SumRows(rows, ts \ {t})

\* The exam's question count.
PoolCount(pool) == SumRows(pool.rows, Texts)

\* The texts of the stored questions.
PoolTexts(pool) == {t \in Texts : pool.rows[t] > 0}

\* A reply, with the fields of both endpoints.
Reply(endpoint) ==
  [endpoint |-> endpoint, num_questions |-> 0, success |-> TRUE, skipped |-> FALSE,
   enrichment_attempted |-> FALSE, created_count |-> 0, requested_count |-> 0,
   duplicates |-> 0,
   total_questions |-> 0, limit |-> 0, wrapped |-> TRUE, questions |-> <<>>,
   list |-> <<>>]

\* Faulty variant: below the target the caller's amount alone is asked for.
requestedCountAsAsked(count, num_questions, batch) ==
  IF count < PoolTarget THEN num_questions ELSE batch

\* The number of questions asked of the generator: below the target what is
\* missing or the caller's amount, whichever is larger; at the target the batch.
requestedCount(count, num_questions, batch) ==
  IF count < PoolTarget THEN Max(PoolTarget - count, num_questions) ELSE batch

\* Faulty variant: a generated question is stored whatever its text.
insertQuestionUncompared(rows, t) == [rows EXCEPT ![t] = @ + 1]

\* A generated question is stored unless a stored question has its text.
insertQuestion(rows, t) == IF rows[t] > 0 THEN rows ELSE [rows EXCEPT ![t] = @ + 1]

\* Faulty variant: the generated questions replace the stored ones.
insertAllReplacing(rows, generated) ==
  [t \in Texts |-> IF \E i \in 1..Len(generated) : generated[i] = t THEN 1 ELSE 0]

RECURSIVE insertAll(_, _)
insertAll(rows, generated) ==
  IF generated = <<>> THEN rows
  ELSE insertAll(insertQuestion(rows, Head(generated)), Tail(generated))

\* Faulty variant: at the target every request enriches the pool.
enrichmentDueAlways(count, trial) == TRUE

\* Generation is due below the target, and at the target when the trial succeeds.
enrichmentDue(count, trial) == count < PoolTarget \/ trial

\* generate-questions: the policy, the generator's answer (ok with the
\* questions generated, or an error) and the insertion.
generateQuestions(pool, num_questions, trial, batch, ok, generated) ==
  LET count == PoolCount(pool)
      requested == requestedCount(count, num_questions, batch)
      rows == insertAll(pool.rows, generated)
      base == [Reply("generate-questions") EXCEPT !.num_questions = num_questions]
  IN  IF ~enrichmentDue(count, trial)
      THEN [pool EXCEPT !.reply = [base EXCEPT !.skipped = TRUE,
                                               !.total_questions = count]]
      ELSE IF ~ok
      THEN [pool EXCEPT !.reply = [base EXCEPT !.success = FALSE,
                                               !.enrichment_attempted = count >= PoolTarget /\ trial,
                                               !.requested_count = requested,
                                               !.total_questions = count]]
      ELSE [rows |-> rows,
            reply |-> [base EXCEPT !.enrichment_attempted = count >= PoolTarget /\ trial,
                                   !.created_count = SumRows(rows, Texts) - count,
                                   !.duplicates =
                                     Len(generated) - (SumRows(rows, Texts) - count),
                                   !.requested_count = requested,
                                   !.total_questions = SumRows(rows, Texts)]]

\* The texts of chosen in one of two orders, which stand for every order.
RECURSIVE Ordered(_, _)
Ordered(chosen, descending) ==
  IF chosen = {} THEN <<>>
  ELSE LET t == IF descending
                THEN CHOOSE x \in chosen : \A y \in chosen : y <= x
                ELSE CHOOSE x \in chosen : \A y \in chosen : x <= y
       IN  <<t>> \o Ordered(chosen \ {t}, descending)

\* The size of a sample.
sampleSize(limit, count) == Min(limit, count)

\* The samples random-questions can draw: sampleSize stored questions, none twice.
Samples(pool, limit) ==
  LET present == PoolTexts(pool)
      drawn == {c \in SUBSET present : Cardinality(c) = sampleSize(limit, PoolCount(pool))}
  IN  {Ordered(c, d) : c \in drawn, d \in BOOLEAN}

\* random-questions: the reply is the list itself or an object that holds it.
randomQuestions(pool, limit, sample, wrapped) ==
  [pool EXCEPT !.reply = [Reply("random-questions") EXCEPT
                            !.limit = limit, !.wrapped = wrapped,
                            !.questions = IF wrapped THEN sample ELSE <<>>,
                            !.list = IF wrapped THEN <<>> ELSE sample,
                            !.total_questions = PoolCount(pool)]]

\* Faulty variant: only the object's list is read.
getRandomExamQuestionsWrappedOnly(data) == IF data.wrapped THEN data.questions ELSE <<>>

\* getRandomExamQuestions: data.questions || data.
getRandomExamQuestions(data) == IF data.wrapped THEN data.questions ELSE data.list

\* What the generator can answer when asked for requested questions: at most
\* that many, texts of the pool and repeated texts among them.  Which of them
\* are stored does not depend on their order: the sorted lists stand for all.
GeneratedLists(requested) ==
  UNION { {g \in [1..k -> Texts] : \A i \in 1..(k - 1) : g[i] <= g[i + 1]}
          : k \in 0..requested }

\* generate-questions is served.  The trial and the batch are drawn at the
\* target only, the generator is called only when generation is due.
GenerateQuestions ==
  \E n \in CallerAmounts :
    LET count == PoolCount(examPool) IN
    \E trial \in (IF count < PoolTarget THEN {FALSE} ELSE BOOLEAN),
       batch \in (IF count < PoolTarget THEN {MinEnrichmentBatch} ELSE EnrichmentBatches) :
      LET due == enrichmentDue(count, trial) IN
      \E ok \in (IF due THEN BOOLEAN ELSE {TRUE}) :
        \E generated \in (IF due /\ ok
                          THEN GeneratedLists(requestedCount(count, n, batch))
                          ELSE {<<>>}) :
          Do([Cur EXCEPT !.examPool =
                generateQuestions(examPool, n, trial, batch, ok, generated)])

RandomQuestions ==
  \E limit \in Limits, wrapped \in BOOLEAN :
    \E sample \in Samples(examPool, limit) :
      Do([Cur EXCEPT !.examPool = randomQuestions(examPool, limit, sample, wrapped)])

NextPool ==
  \/ GenerateQuestions
  \/ RandomQuestions

SpecPool == Init /\ [][NextPool]_vars


\* A generate-questions request has been served in this step.
GenerateServed ==
  /\ examPool' # examPool
  /\ examPool'.reply.endpoint = "generate-questions"

C26_PoolNeverShrinks ==
  [][/\ PoolCount(examPool') >= PoolCount(examPool)
     /\ \A t \in Texts : examPool'.rows[t] >= examPool.rows[t]]_vars

\* A failed generation on a pool that holds questions.
C26_Witness ==
  /\ examPool.reply.endpoint = "generate-questions"
  /\ ~examPool.reply.success
  /\ PoolCount(examPool) > 0
  /\ examPool.reply.total_questions = PoolCount(examPool)

\* C27: no two stored questions of the exam have the same text, and created_count
\* counts the generated questions whose text was new, not the discarded ones.
C27_NoTwoSameText ==
  /\ [](\A t \in Texts : examPool.rows[t] <= 1)
  /\ [][GenerateServed
          => examPool'.reply.created_count =
               Cardinality(PoolTexts(examPool') \ PoolTexts(examPool))]_vars

\* A generation of which some questions were stored and some discarded.
C27_Witness ==
  /\ examPool.reply.endpoint = "generate-questions"
  /\ examPool.reply.duplicates > 0
  /\ examPool.reply.created_count > 0
  /\ PoolCount(examPool) = Cardinality(PoolTexts(examPool))

\* The list the client holds after the last random-questions request.
ClientSample == getRandomExamQuestions(examPool.reply)

C29_GenerationOnlyBelowTarget ==
  [][(loadCall.phase = "lookup" /\ loadCall'.phase = "generating")
       => loadCall'.questions_count < PoolTarget]_vars


\* C30: while a question set is loading the countdown does not run: no step
\* taken in a loading render decrements timeRemaining or records a timeout.
C30_NoCountdownWhileLoading ==
  [][isLoadingQuestions => (~CountedDown /\ ~TimeoutRecorded)]_vars


\* The question q has been reached: it stands in the installed list at an index
\* that is at most the current one.
Reached(q) ==
  \E i \in 1..Len(questions) : questions[i] = q /\ i - 1 <= currentQuestionIndex

\* C31: outside review mode every answer record of the map belongs to a question
\* of the installed list that has been reached.
C31_RecordsOnlyForReached ==
  ~isReviewMode => \A q \in QuestionIds : userAnswers[q].attempted => Reached(q)


\* C32: whenever a non-empty question list is installed the current index is an
\* index of the list.
C32_IndexWithinList ==
  Len(questions) > 0 => (0 <= currentQuestionIndex /\ currentQuestionIndex < Len(questions))


\* The exam page's question card is rendered.
QuestionDisplayed == MainScreen(Cur) /\ currentPage = PAGES.EXAM /\ ~isReviewMode

\* C33: no timeout is recorded by a step taken while the question card is not
\* rendered (the loading screen, the home page or the contact page is).
C33_NoTimeoutOffScreen ==
  [][~QuestionDisplayed => ~TimeoutRecorded]_vars


\* C34: within a session an answer record, once written, is never replaced or
\* removed by a later step.
C34_RecordWrittenOnce ==
  [][(Len(questions) > 0 /\ SameSession)
       => \A q \in QuestionIds :
            userAnswers[q].attempted => userAnswers'[q] = userAnswers[q]]_vars


\* An answer submitted one second before the expiry: the record stands, the
\* feedback is shown and the clock is at 1.
C34_Witness ==
  /\ QuestionShown(Cur) /\ IndexInList /\ showFeedback
  /\ userAnswers[CurrentQuestion].attempted
  /\ ~userAnswers[CurrentQuestion].timedOut
  /\ timeRemaining = 1


\* C35: the installed questions belong to the selected exam type.  A list is
\* installed only by the one load in flight, which was requested for the exam
\* type selected at that moment, and the exam type does not change under an
\* installed list: a change empties the list and starts the load of the new type.
C35_QuestionsOfSelectedType ==
  /\ [](\A t \in loadRequests : t = currentExamType)
  /\ [][(Len(questions') > 0 /\ questions' # questions)
          => (loadRequests \ loadRequests' = {currentExamType'} /\ loadRequests' = {})]_vars
  /\ [][(Len(questions) > 0 /\ Len(questions') > 0)
          => currentExamType' = currentExamType]_vars

\* The list of the second exam type, installed after a switch from the first.
C35_Witness ==
  /\ Len(questions) > 0
  /\ currentExamType = "cloud_practitioner"
  /\ loadRequests = {}
  /\ ~isLoadingQuestions


\* The number of answer records in the map.
answerRecords(s) == Cardinality({q \in DOMAIN s.userAnswers : s.userAnswers[q].attempted})

\* C36: at every moment the correct records are at most the records, which are
\* at most the questions of the list, and the computed percentage lies in 0..100.
C36_ScoreWithinBounds ==
  /\ correctAnswers(Cur) <= answerRecords(Cur)
  /\ answerRecords(Cur) <= Len(questions)
  /\ Len(questions) > 0 => calculateScore(Cur).percentage \in 0..100

\* A load has failed and no other has been started: the error screen is shown.
LoadFailed == loadingError /\ ~isLoadingQuestions /\ Len(questions) = 0

\* C37: after a failed load no session is in progress: the lock is off, the
\* timer is not active, and the map and the index are those of no session.
C37_FailedLoadLeavesNoSession ==
  LoadFailed
    => /\ ~examInProgress
       /\ ~timerActive
       /\ userAnswers = NoAnswers
       /\ currentQuestionIndex = 0


\* A step that leaves the active question where it is: the same list, the same
\* index, and the question active before and after.
QuestionStays ==
  /\ QuestionActive /\ QuestionActive'
  /\ SameSession
  /\ currentQuestionIndex' = currentQuestionIndex

\* C38: timeRemaining stays within 1..TimePerQuestion; a tick decrements it by
\* exactly 1, or records the timeout at 1; a timeout is recorded at 1 only; and
\* while a question stays active no other step moves the clock.  With the entry
\* at TimePerQuestion (C17) an unanswered question times out on the tick numbered
\* TimePerQuestion.
C38_ClockWithinRange ==
  /\ [](timeRemaining \in 1..TimePerQuestion)
  /\ [][TimerTick
          => \/ timeRemaining' = timeRemaining - 1
             \/ timeRemaining = 1 /\ timeRemaining' = TimePerQuestion]_vars
  /\ [][TimeoutRecorded => timeRemaining = 1]_vars
  /\ [][(TimerTick /\ QuestionActive /\ timeRemaining = 1)
          => userAnswers'[CurrentQuestion].timedOut]_vars
  /\ [][QuestionStays
          => timeRemaining' \in {timeRemaining, timeRemaining - 1}]_vars


\* The second question has run out of time: its timeout is recorded and the
\* clock is back at the full time.
C38_Witness ==
  /\ Len(questions) > 1 /\ currentQuestionIndex = 1 /\ ~isReviewMode
  /\ userAnswers[CurrentQuestion].timedOut
  /\ showFeedback
  /\ timeRemaining = TimePerQuestion


\* The render r that a handler produces is a stopped switch: the modal is
\* raised and the exam type stays.
SwitchStopped(r) == r.showExamInProgressModal /\ r.currentExamType = currentExamType

\* C39: examInProgress and isReviewMode are never both true, so that with a
\* session in progress the lock check of handleExamTypeChange and of
\* handleExamSelection stops every switch to another exam type.
C39_LockNeverInReview ==
  /\ ~(examInProgress /\ isReviewMode)
  /\ examInProgress
       => \A t \in ClickedTypes \ {currentExamType} :
            /\ SwitchStopped(handleExamTypeChange(Cur, t))
            /\ SwitchStopped(handleExamSelection(Cur, t))

\* A completed exam: review mode is on and the lock is off.
C39_Witness ==
  /\ isReviewMode /\ ~examInProgress
  /\ Len(questions) > 0
  /\ \A q \in QuestionIds : userAnswers[q].attempted

====
